---- MODULE Spec2Model ----
(***************************************************************************)
(* Model of the NFS fetch client of iPXE:                                  *)
(*   - the ONC RPC session layer (oncrpc.c, the second half of             *)
(*     src/src/net/oncrpc/nfs_open.c): oncrpc_call_iob, oncrpc_deliver,    *)
(*     oncrpc_window_changed, oncrpc_close_session;                        *)
(*   - the NFS-open driver state machine (the first half of the same       *)
(*     file): nfs_done, nfs_connect, nfs_pm_step, nfs_pm_deliver,          *)
(*     nfs_mount_step, nfs_mount_deliver, nfs_step, nfs_deliver.           *)
(* The two layers are explored by two specifications, SpecRpc and Spec,    *)
(* over one set of variables.                                              *)
(***************************************************************************)
EXTENDS Integers, Sequences, FiniteSets, TLC

VARIABLES
    \* ---- struct oncrpc_session and its observers --------------------------
    rpc_id,          \* session->rpc_id
    pending_call,    \* session->pending_call, head first; frames awaiting a window
    pending_reply,   \* session->pending_reply, head first
    rpc_window,      \* xfer_window ( &session->intf ) of the plugged transport
    rpc_shut,        \* "open", or "shut" after intf_shutdown ( &session->intf )
    rpc_shut_rc,     \* the status the transport was shut down with
    wire,            \* frames the transport accepted, in order (observer)
    rpc_calls,       \* one record per oncrpc_call_iob invocation (observer)
    invoked,         \* callbacks run by oncrpc_deliver, in order (observer)
    answered,        \* xids of transmitted frames the server has answered
    \* ---- struct nfs_request and its observers -----------------------------
    pm_state,        \* nfs->pm_state
    mount_state,     \* nfs->mount_state
    nfs_state,       \* nfs->nfs_state
    current_fh,      \* nfs->current_fh: "none", "root" or "file"
    file_offset,     \* nfs->file_offset
    intf,            \* plug state of xfer, pm_intf, mount_intf, nfs_intf
    win,             \* send window of the transport behind each RPC interface
    outstanding,     \* per connection: calls sent and not yet answered
    log,             \* everything the driver did, in order (observer)
    \* ---- the environment -------------------------------------------------
    faults,          \* whether servers, transports and the sink may fail
    \* ---- one call frame being built ---------------------------------------
    call_in,         \* the session fields and arguments of the call
    call_buf         \* the bytes of the frame built for it; << >> before

rpcvars == << rpc_id, pending_call, pending_reply, rpc_window, rpc_shut,
              rpc_shut_rc, wire, rpc_calls, invoked, answered >>
drvvars == << pm_state, mount_state, nfs_state, current_fh, file_offset,
              intf, win, outstanding, log >>
vars == << rpc_id, pending_call, pending_reply, rpc_window, rpc_shut,
           rpc_shut_rc, wire, rpc_calls, invoked, answered,
           pm_state, mount_state, nfs_state, current_fh, file_offset,
           intf, win, outstanding, log, faults, call_in, call_buf >>
encvars == << call_in, call_buf >>

(***************************************************************************)
(* Bounds of the exploration.                                              *)
(***************************************************************************)
\* number of oncrpc_call_iob invocations explored on the session
MaxCalls == 3
\* number of READ replies the server sends in one fetch
MaxReads == 2
\* window notifications are explored while at most this many calls of the
\* connection are unanswered
MaxOutstanding == 1
\* the longest machine name of an AUTH_SYS credential, in bytes
MaxNameLen == 5
\* the largest number of auxiliary gids of an AUTH_SYS credential
MaxAuxGids == 2
\* argument payloads have 0..MaxArgWords words, or BigArgWords words
MaxArgWords == 2
BigArgWords == 75
\* messages a server may send on a connection beyond its replies to calls
MaxStray == 1

(***************************************************************************)
(* Program constants.                                                      *)
(***************************************************************************)
ONCRPC_CALL == 0
ONCRPC_REPLY == 1
NFS_RSIZE == 1300

NFS_PORTMAP_NONE == 0
NFS_PORTMAP_MOUNTPORT == 1
NFS_PORTMAP_NFSPORT == 2
MFS_PORTMAP_CLOSED == 3

NFS_MOUNT_NONE == 0
NFS_MOUNT_MNT == 1
NFS_MOUNT_UMNT == 2
NFS_MOUNT_CLOSED == 3

NFS_NONE == 0
NFS_LOOKUP == 1
NFS_LOOKUP_SENT == 2
NFS_READ == 3
NFS_READ_SENT == 4
NFS_CLOSED == 5

\* status codes: "OK" is 0, every other string is a negative errno
OK == "OK"

(***************************************************************************)
(* Sequence helpers.                                                       *)
(***************************************************************************)
RECURSIVE SeqFilter(_, _)
\* the subsequence of s at the indices i with keep[i]
SeqFilter(s, keep) ==
    IF s = << >> THEN << >>
    ELSE LET n == Len(s)
             front == SeqFilter(SubSeq(s, 1, n - 1), keep)
         IN  IF keep[n] THEN Append(front, s[n]) ELSE front

\* list_add ( new, head ): the new entry becomes the first of the list
list_add(new, list) == << new >> \o list

(***************************************************************************)
(*                       ONC RPC session (oncrpc.c)                         *)
(***************************************************************************)

\* the first rpc_id of the session: never set by oncrpc_init_session; the
\* session is embedded in a zalloc'ed nfs_request (0), the spec allows any
InitialXids == {0, 7}

\* statuses an interface may be closed with
CloseRcs == {OK, "ECONNRESET"}

\* outcomes of xfer_deliver_iob on the session's transport
SendRcs == {OK, "EIO"}

\* the rpc_id oncrpc_call_iob stores in the pending-reply entry of a call
\* whose frame carries frame_xid: session->rpc_id, read after the
\* post-increment that produced the frame's xid
PendingReplyKey(frame_xid) == frame_xid + 1

\* oncrpc_call_iob ( session, proc, io_buf, cb ); the callback is identified
\* with the index of the call in rpc_calls.
\*   how = "null"       session == NULL
\*         "nobuf"      alloc_iob or malloc ( pending_reply ) fails
\*         "nocall"     window closed and malloc ( pending_call ) fails
\*         "go"         every allocation succeeds; rc is the send outcome
oncrpc_call_iob(how, rc) ==
    LET k     == Len(rpc_calls) + 1
        xid   == rpc_id
        frame == [xid |-> xid, call |-> k]
        entry == [rpc_id |-> PendingReplyKey(xid), callback |-> k]
        \* xfer_window of a shut (unplugged) interface is unlimited
        open  == IF rpc_shut = "shut" THEN TRUE ELSE rpc_window
        \* xfer_deliver_iob on a shut interface discards and fails
        sendrc == IF rpc_shut = "shut" THEN "EPIPE" ELSE rc
    IN
    /\ Len(rpc_calls) < MaxCalls
    /\ UNCHANGED << rpc_window, rpc_shut, rpc_shut_rc, invoked, answered >>
    /\ CASE how = "null" ->
              /\ rpc_calls' = Append(rpc_calls,
                     [xid |-> -1, rc |-> "EINVAL", path |-> "null"])
              /\ UNCHANGED << rpc_id, pending_call, pending_reply, wire >>
         [] how = "nobuf" ->
              /\ rpc_calls' = Append(rpc_calls,
                     [xid |-> -1, rc |-> "ENOBUFS", path |-> "nobuf"])
              /\ UNCHANGED << rpc_id, pending_call, pending_reply, wire >>
         [] how = "nocall" ->
              /\ ~ open
              /\ rpc_id' = rpc_id + 1
              /\ rpc_calls' = Append(rpc_calls,
                     [xid |-> xid, rc |-> "ENOBUFS", path |-> "nocall"])
              /\ UNCHANGED << pending_call, pending_reply, wire >>
         [] how = "go" /\ ~ open ->
              /\ rpc_id' = rpc_id + 1
              /\ pending_call' = list_add(frame, pending_call)
              /\ pending_reply' = list_add(entry, pending_reply)
              /\ rpc_calls' = Append(rpc_calls,
                     [xid |-> xid, rc |-> OK, path |-> "queued"])
              /\ UNCHANGED wire
         [] how = "go" /\ open /\ sendrc = OK ->
              \* if ( ! rc ): the successful send drops the pending reply
              /\ rpc_id' = rpc_id + 1
              /\ wire' = Append(wire, frame)
              /\ rpc_calls' = Append(rpc_calls,
                     [xid |-> xid, rc |-> OK, path |-> "sent"])
              /\ UNCHANGED << pending_call, pending_reply >>
         [] how = "go" /\ open /\ sendrc # OK ->
              \* the failed send falls through and records the pending reply
              /\ rpc_id' = rpc_id + 1
              /\ pending_reply' = list_add(entry, pending_reply)
              /\ rpc_calls' = Append(rpc_calls,
                     [xid |-> xid, rc |-> sendrc, path |-> "sendfail"])
              /\ UNCHANGED << pending_call, wire >>

\* GET_FRAME_SIZE ( x ): the record-marking word without its top bit; a
\* record is held as [last, size, words], its marking word split into the
\* last-fragment bit and the 31-bit length, words being the 32-bit words
\* that follow it
GET_FRAME_SIZE(record) == record.size

\* Matches that takes every entry for a match
Matches_Any(entry_id, xid) == TRUE

\* reply.rpc_id != p->rpc_id, negated: the entry is the reply's
Matches(entry_id, xid) == entry_id = xid

\* the header oncrpc_deliver reads with oncrpc_iob_get_int, word by word:
\* after the marking word come rpc_id, the direction, reply_state and, right
\* behind it, what is taken for accept_state; cursor is the index of the
\* first word not consumed, where reply.data is left
oncrpc_deliver_header(record) ==
    [fragment_size |-> GET_FRAME_SIZE(record),
     rpc_id |-> record.words[1],
     direction |-> record.words[2],
     reply_state |-> record.words[3],
     accept_state |-> record.words[4],
     cursor |-> 5]

\* oncrpc_deliver ( session, io_buf, meta ): a record arrives on the
\* session's transport. The result: rc is what the handler returns ("cb":
\* what the callback returns), callback the callback it ran (0: none) with
\* the accept_state and the payload cursor it was given, and the two lists
\* as the handler leaves them
oncrpc_deliver(record) ==
    LET reply == oncrpc_deliver_header(record)
        match == { i \in 1..Len(pending_reply) :
                     Matches(pending_reply[i].rpc_id, reply.rpc_id) }
        \* the loop overwrites callback at every match: the last one stays
        last  == CHOOSE i \in match : \A j \in match : j <= i
        none  == [rc |-> OK, callback |-> 0, accept_state |-> 0, cursor |-> 0,
                  xid |-> reply.rpc_id,
                  pending_reply |-> pending_reply,
                  pending_call |-> pending_call]
    IN
    IF reply.direction # ONCRPC_REPLY THEN [none EXCEPT !.rc = "ENOTSUP"]
    ELSE IF match = {} THEN none
    ELSE [none EXCEPT
            !.rc = "cb",
            !.callback = pending_reply[last].callback,
            !.accept_state = reply.accept_state,
            !.cursor = reply.cursor,
            !.pending_reply = SeqFilter(pending_reply,
                [i \in 1..Len(pending_reply) |-> i \notin match])]

\* oncrpc_window_changed ( session ); window is xfer_window ( &session->intf ),
\* sent[i] tells whether xfer_deliver_iob accepts the i-th queued frame
oncrpc_window_changed(window, sent) ==
    IF ~ window
    THEN UNCHANGED << pending_call, wire >>
    ELSE \* a failed send continues with the next entry
         /\ wire' = wire \o SeqFilter(pending_call, sent)
         /\ pending_call' = SeqFilter(pending_call,
                [i \in 1..Len(pending_call) |-> ~ sent[i]])

\* oncrpc_close_session with the first loop left out: the pending replies stay
oncrpc_close_session_KeepReplies(rc) ==
    [pending_reply |-> pending_reply,
     pending_call |-> << >>,
     rpc_shut |-> "shut",
     rpc_shut_rc |-> IF rpc_shut = "shut" THEN rpc_shut_rc ELSE rc]

\* oncrpc_close_session ( session, rc ): the lists and the transport as it
\* leaves them; intf_shutdown of an interface already shut reports nothing
oncrpc_close_session(rc) ==
    [pending_reply |-> << >>,
     pending_call |-> << >>,
     rpc_shut |-> "shut",
     rpc_shut_rc |-> IF rpc_shut = "shut" THEN rpc_shut_rc ELSE rc]

----
\* Events of the RPC session specification.

\* the owner of the session issues a call
RpcCall ==
    \E how \in {"null", "nobuf", "nocall", "go"}, rc \in SendRcs :
        /\ how # "go" => rc = OK
        /\ oncrpc_call_iob(how, rc)
        /\ UNCHANGED << drvvars, encvars, faults >>

\* verifiers a server may send: AUTH_NONE with no body, or another flavor
\* with a body of one or two words
Verifiers == { [flavor |-> 0, body |-> << >>],
               [flavor |-> 1, body |-> << 7 >>],
               [flavor |-> 1, body |-> << 7, 7 >>] }
\* accept_state of an accepted reply: SUCCESS, PROG_UNAVAIL
AcceptStates == {0, 1}
\* what stands for the procedure-specific results
ResultWord == 9
\* an accepted reply as the server lays it out: xid, direction, reply_state
\* 0, the verifier (flavor, length in bytes, body), accept_state, results
ReplyRecord(xid, vflavor, vbody, accept_state) ==
    LET words == << xid, ONCRPC_REPLY, 0, vflavor, 4 * Len(vbody) >>
                 \o vbody \o << accept_state, ResultWord >>
    IN  [last |-> TRUE, size |-> 4 * Len(words), words |-> words]

\* a record of the other direction: a call header
CallRecord(xid) ==
    [last |-> TRUE, size |-> 20, words |-> << xid, ONCRPC_CALL, 2, 0, 0 >>]

\* where the server put accept_state and the results in a reply record
AcceptAt(record) == 6 + (record.words[5] \div 4)
ResultsAt(record) == AcceptAt(record) + 1

\* the accepted replies a server may send for xid
ReplyRecords(xid) ==
    { ReplyRecord(xid, v.flavor, v.body, a) :
        v \in Verifiers, a \in AcceptStates }

\* a record is delivered to the session: oncrpc_deliver runs
Deliver(record) ==
    LET r == oncrpc_deliver(record)
    IN  /\ pending_reply' = r.pending_reply
        /\ pending_call' = r.pending_call
        /\ invoked' = IF r.callback = 0 THEN invoked
                      ELSE Append(invoked,
                                  [callback |-> r.callback, xid |-> r.xid])
        /\ UNCHANGED << rpc_id, rpc_window, rpc_shut, rpc_shut_rc, wire,
                        rpc_calls >>

\* the server answers a frame it received and has not answered yet
RpcServerReply ==
    \E i \in 1..Len(wire) :
        \E record \in ReplyRecords(wire[i].xid) :
            /\ rpc_shut = "open"
            /\ wire[i].xid \notin answered
            /\ answered' = answered \cup {wire[i].xid}
            /\ Deliver(record)
            /\ UNCHANGED << drvvars, encvars, faults >>

\* a record that answers no transmitted frame arrives
RpcStrayDeliver ==
    \E x \in 0..(rpc_id + 1) :
        \E record \in ReplyRecords(x) \cup { CallRecord(x) } :
            /\ rpc_shut = "open"
            /\ \A i \in 1..Len(wire) : wire[i].xid # x
            /\ UNCHANGED answered
            /\ Deliver(record)
            /\ UNCHANGED << drvvars, encvars, faults >>

\* the transport reports its window (closed, or open) and notifies the session
RpcWindowChanged ==
    \E b \in BOOLEAN, sent \in [1..Len(pending_call) -> BOOLEAN] :
        /\ rpc_shut = "open"
        /\ ~ b => \A i \in 1..Len(pending_call) : sent[i]
        /\ rpc_window' = b
        /\ oncrpc_window_changed(b, sent)
        /\ UNCHANGED << rpc_id, pending_reply, rpc_shut, rpc_shut_rc,
                        rpc_calls, invoked, answered >>
        /\ UNCHANGED << drvvars, encvars, faults >>

\* the transport closes the session while it is open, or the owner closes
\* it at any time
RpcClose ==
    \E rc \in CloseRcs :
        /\ LET r == oncrpc_close_session(rc)
           IN  /\ pending_reply' = r.pending_reply
               /\ pending_call' = r.pending_call
               /\ rpc_shut' = r.rpc_shut
               /\ rpc_shut_rc' = r.rpc_shut_rc
        /\ UNCHANGED << rpc_id, rpc_window, wire, rpc_calls, invoked,
                        answered >>
        /\ UNCHANGED << drvvars, encvars, faults >>

\* oncrpc_init_session: both lists empty, the interface initialised
RpcInitVars ==
    /\ pending_call = << >>
    /\ pending_reply = << >>
    /\ rpc_window = FALSE
    /\ rpc_shut = "open"
    /\ rpc_shut_rc = OK
    /\ wire = << >>
    /\ rpc_calls = << >>
    /\ invoked = << >>
    /\ answered = {}

(***************************************************************************)
(*                 Call frames (oncrpc.c, oncrpc_call_iob)                  *)
(***************************************************************************)

ONCRPC_VERS == 2
ONCRPC_AUTH_NONE == 0
ONCRPC_AUTH_SYS == 1

\* the four bytes of a 32-bit word in network order; the word is held as
\* its top bit and its low 31 bits
htonl(top, low) ==
    << 128 * top + (low \div 16777216), (low \div 65536) % 256,
       (low \div 256) % 256, low % 256 >>

\* oncrpc_iob_add_int ( io_buf, val ): the buffer after it, and its result
oncrpc_iob_add_int(buf, val) == [buf |-> buf \o htonl(0, val), ret |-> 4]

RECURSIVE PadString(_, _)
\* while ( ( s++ - val ) % 4 != 0 ) put '\0': s is s - val; the result
\* carries s as the loop leaves it, one past the value that ended it
PadString(buf, s) ==
    IF s % 4 # 0 THEN PadString(Append(buf, 0), s + 1)
    ELSE [buf |-> buf, s |-> s + 1]

\* oncrpc_iob_add_string that counts the characters but not the padding
oncrpc_iob_add_string_NoPad(buf, val) ==
    LET len == oncrpc_iob_add_int(buf, Len(val))
        pad == PadString(len.buf \o val, Len(val))
    IN  [buf |-> pad.buf, ret |-> Len(val) + 4]

\* oncrpc_iob_add_string ( io_buf, val ); val is the string without its NUL
oncrpc_iob_add_string(buf, val) ==
    LET len == oncrpc_iob_add_int(buf, Len(val))
        pad == PadString(len.buf \o val, Len(val))
    IN  [buf |-> pad.buf, ret |-> (pad.s - 1) + 4]

RECURSIVE AddInts(_, _)
\* for ( i = 0; i < size; ++i ) oncrpc_iob_add_int ( io_buf, array[i] )
AddInts(buf, array) ==
    IF array = << >> THEN buf
    ELSE AddInts(oncrpc_iob_add_int(buf, Head(array)).buf, Tail(array))

\* oncrpc_iob_add_intarray ( io_buf, size, array )
oncrpc_iob_add_intarray(buf, size, array) ==
    [buf |-> AddInts(oncrpc_iob_add_int(buf, size).buf, SubSeq(array, 1, size)),
     ret |-> (size + 1) * 4]

\* oncrpc_iob_add_cred ( io_buf, cred )
oncrpc_iob_add_cred(buf, cred) ==
    LET flavor == oncrpc_iob_add_int(buf, cred.flavor)
        length == oncrpc_iob_add_int(flavor.buf, cred.length)
        s      == flavor.ret + length.ret
    IN
    IF cred.flavor = ONCRPC_AUTH_SYS
    THEN LET stamp == oncrpc_iob_add_int(length.buf, cred.stamp)
             host  == oncrpc_iob_add_string(stamp.buf, cred.hostname)
             uid   == oncrpc_iob_add_int(host.buf, cred.uid)
             gid   == oncrpc_iob_add_int(uid.buf, cred.gid)
             aux   == oncrpc_iob_add_intarray(gid.buf, cred.aux_gid_len,
                                              cred.aux_gid)
         IN  [buf |-> aux.buf,
              ret |-> s + stamp.ret + host.ret + uid.ret + gid.ret + aux.ret]
    ELSE [buf |-> length.buf, ret |-> s]

\* SET_LAST_FRAME ( x ): x |= 1 << 31, on a word held as top bit and low bits
SET_LAST_FRAME(x) == [x EXCEPT !.top = 1]

\* the frame oncrpc_call_iob builds in call_buf for the call c = [rpc_id,
\* prog_name, prog_vers, proc_name, credential, verifier, io_buf]: four
\* bytes reserved, the call header, the credential and the verifier, the
\* marking word stored in the reserved bytes, then the arguments
oncrpc_call_frame(c) ==
    LET reserved == << 0, 0, 0, 0 >>
        xid   == oncrpc_iob_add_int(reserved, c.rpc_id)
        dir   == oncrpc_iob_add_int(xid.buf, ONCRPC_CALL)
        vers  == oncrpc_iob_add_int(dir.buf, ONCRPC_VERS)
        prog  == oncrpc_iob_add_int(vers.buf, c.prog_name)
        pvers == oncrpc_iob_add_int(prog.buf, c.prog_vers)
        proc  == oncrpc_iob_add_int(pvers.buf, c.proc_name)
        cred  == oncrpc_iob_add_cred(proc.buf, c.credential)
        verf  == oncrpc_iob_add_cred(cred.buf, c.verifier)
        frame_size == [top |-> 0,
                       low |-> xid.ret + dir.ret + vers.ret + prog.ret
                               + pvers.ret + proc.ret + cred.ret + verf.ret
                               + Len(c.io_buf)]
        marked == SET_LAST_FRAME(frame_size)
    IN  htonl(marked.top, marked.low)
        \o SubSeq(verf.buf, 5, Len(verf.buf)) \o c.io_buf

\* struct oncrpc_cred oncrpc_auth_none
oncrpc_auth_none == [flavor |-> ONCRPC_AUTH_NONE, length |-> 0]

\* the bytes a string of len characters takes with its padding
Padded(len) == 4 * ((len + 3) \div 4)

\* an AUTH_SYS credential as oncrpc_init_cred_sys fills it in: length is the
\* length of the body
CredSys(hostname, aux_gid) ==
    [flavor |-> ONCRPC_AUTH_SYS,
     length |-> 16 + Padded(Len(hostname)) + 4 * (Len(aux_gid) + 1),
     stamp |-> 0, hostname |-> hostname, uid |-> 0, gid |-> 0,
     aux_gid_len |-> Len(aux_gid), aux_gid |-> aux_gid]

\* the credentials, argument payloads and calls a frame is built for
Credentials ==
    { oncrpc_auth_none } \cup
    { CredSys([i \in 1..l |-> 97], [i \in 1..g |-> 100 + i])
      : l \in 0..MaxNameLen, g \in 0..MaxAuxGids }
Payloads ==
    { [i \in 1..(4 * w) |-> 0] : w \in (0..MaxArgWords) \cup {BigArgWords} }
CallInputs ==
    { [rpc_id |-> x, prog_name |-> 100003, prog_vers |-> 3, proc_name |-> 3,
       credential |-> cr, verifier |-> oncrpc_auth_none, io_buf |-> a]
      : x \in InitialXids, cr \in Credentials, a \in Payloads }

\* oncrpc_call_iob builds the frame of the call
BuildFrame ==
    /\ call_in \in CallInputs
    /\ call_buf = << >>
    /\ call_buf' = oncrpc_call_frame(call_in)
    /\ UNCHANGED << rpcvars, drvvars, faults, call_in >>

(***************************************************************************)
(*                     NFS-open driver (nfs_open.c)                         *)
(***************************************************************************)

Intfs == {"xfer", "pm", "mount", "nfs"}
Conns == {"pm", "mount", "nfs"}

\* the driver state as one value, so that handlers compose as the C calls do
Cur == [pm_state |-> pm_state, mount_state |-> mount_state,
        nfs_state |-> nfs_state, current_fh |-> current_fh,
        file_offset |-> file_offset, intf |-> intf, win |-> win,
        outstanding |-> outstanding, log |-> log]

Become(t) ==
    /\ pm_state' = t.pm_state
    /\ mount_state' = t.mount_state
    /\ nfs_state' = t.nfs_state
    /\ current_fh' = t.current_fh
    /\ file_offset' = t.file_offset
    /\ intf' = t.intf
    /\ win' = t.win
    /\ outstanding' = t.outstanding
    /\ log' = t.log

\* one entry of the driver's log
Ev(ev, what, n, rc) ==
    [ev |-> ev, what |-> what, n |-> n, rc |-> rc, eof |-> FALSE,
     count |-> 0, attrs |-> TRUE]
Logged(s, e) == [s EXCEPT !.log = Append(@, e)]

\* the peer of interface i closed: it takes no further operation
PeerGone(s, i) == [s EXCEPT !.intf[i] = "peergone"]

\* intf_shutdown ( intf, rc ): the interface takes no further operation, and
\* its peer, when one is plugged and has not closed itself, is told close(rc).
\* The close of the data interface goes to the downstream sink.
intf_shutdown(s, i, rc) ==
    IF s.intf[i] = "plugged"
    THEN [s EXCEPT !.intf[i] = "shut",
                   !.log = Append(@, Ev(IF i = "xfer" THEN "close"
                                        ELSE "shutdown", i, 0, rc))]
    ELSE [s EXCEPT !.intf[i] = "shut"]

\* xfer_window ( intf ): the transport's window; an interface with no peer
\* (never connected, or shut down) reports an unlimited window
xfer_window(s, i) == IF s.intf[i] = "plugged" THEN s.win[i] ELSE TRUE

\* DoneRc with the rewrite left out: a close with status 0 completes with 0
DoneRc_NoReset(rc, state) == rc

\* DoneRc with the "rc == 0 &&" test left out: every completion before the
\* NFS side is closed becomes -ECONNRESET
DoneRc_AlwaysReset(rc, state) ==
    IF state # NFS_CLOSED THEN "ECONNRESET" ELSE rc

\* the status nfs_done reports: a close with status 0 before the NFS side is
\* closed becomes -ECONNRESET
DoneRc(rc, state) == IF rc = OK /\ state # NFS_CLOSED THEN "ECONNRESET" ELSE rc

\* nfs_done without intf_shutdown ( &nfs->xfer, rc ): the sink is not told
nfs_done_NoXfer(s, rc) ==
    LET r  == DoneRc(rc, s.nfs_state)
        s0 == Logged(s, Ev("done", "", 0, r))
        s2 == intf_shutdown(s0, "pm", r)
        s3 == intf_shutdown(s2, "mount", r)
    IN  intf_shutdown(s3, "nfs", r)

\* nfs_done that shuts down the data interface alone: the three transports
\* stay plugged
nfs_done_XferOnly(s, rc) ==
    LET r  == DoneRc(rc, s.nfs_state)
    IN  intf_shutdown(Logged(s, Ev("done", "", 0, r)), "xfer", r)

\* nfs_done ( nfs, rc )
nfs_done(s, rc) ==
    LET r  == DoneRc(rc, s.nfs_state)
        s0 == Logged(s, Ev("done", "", 0, r))
        s1 == intf_shutdown(s0, "xfer", r)
        s2 == intf_shutdown(s1, "pm", r)
        s3 == intf_shutdown(s2, "mount", r)
    IN  intf_shutdown(s3, "nfs", r)

\* the sink closes the data interface with rc: intf_close reaches nfs_done;
\* the sink has shut its own side, so it takes no close in return
xfer_close(s, rc) ==
    nfs_done(PeerGone(Logged(s, Ev("cancel", "", 0, rc)), "xfer"), rc)

\* outcomes of xfer_open_named_socket
OpenRcs == IF faults THEN {OK, "ENOMEM"} ELSE {OK}

\* nfs_connect that connects to the well-known NFS port whatever port it
\* is given
nfs_connect_FixedPort(s, i, port) ==
    IF port = 0
    THEN { [st |-> s, rc |-> "EINVAL"] }
    ELSE { [st |-> IF rc = OK
                   THEN [s EXCEPT !.intf[i] = "plugged", !.win[i] = FALSE,
                                  !.log = Append(@, Ev("connect", i, 2049, OK))]
                   ELSE s,
            rc |-> rc] : rc \in OpenRcs }

\* nfs_connect with the "! port" test left out: port 0 is connected to
nfs_connect_NoPortTest(s, i, port) ==
    { [st |-> IF rc = OK
              THEN [s EXCEPT !.intf[i] = "plugged", !.win[i] = FALSE,
                             !.log = Append(@, Ev("connect", i, port, OK))]
              ELSE s,
       rc |-> rc] : rc \in OpenRcs }

\* nfs_connect ( intf, port, hostname ): the set of << state, rc >> outcomes
nfs_connect(s, i, port) ==
    IF port = 0
    THEN { [st |-> s, rc |-> "EINVAL"] }
    ELSE { [st |-> IF rc = OK
                   THEN [s EXCEPT !.intf[i] = "plugged", !.win[i] = FALSE,
                                  !.log = Append(@, Ev("connect", i, port, OK))]
                   ELSE s,
            rc |-> rc] : rc \in OpenRcs }

\* outcomes of issuing a call (portmap_getport, mount_mnt, mount_umnt,
\* nfs_lookup, nfs_read) on an interface: sent, would block, or failed; an
\* interface without a peer discards the frame
CallRcs(s, i) == IF s.intf[i] # "plugged" THEN {"EPIPE"}
                 ELSE IF faults THEN {OK, "EAGAIN", "EIO"} ELSE {OK}

\* a call helper: the set of << state, rc >> outcomes; a call that was sent is
\* logged and awaits its reply on connection i
IssueCall(s, i, what, n) ==
    { [st |-> IF rc = OK
              THEN [s EXCEPT !.outstanding[i] = Append(@, what),
                             !.log = Append(@, Ev("call", what, n, OK))]
              ELSE s,
       rc |-> rc] : rc \in CallRcs(s, i) }

\* nfs_read that asks for the bytes at offset 0 whatever offset it is given
nfs_read_AtZero(s, offset, count) ==
    { [st |-> IF rc = OK
              THEN [s EXCEPT !.outstanding["nfs"] = Append(@, "READ"),
                             !.log = Append(@, [Ev("call", "READ", 0, OK)
                                                   EXCEPT !.count = count])]
              ELSE s,
       rc |-> rc] : rc \in CallRcs(s, "nfs") }

\* nfs_read ( &nfs->nfs_intf, &nfs->nfs_session, &nfs->current_fh, offset,
\* count ): the call asks for count bytes at offset
nfs_read(s, offset, count) ==
    { [st |-> IF rc = OK
              THEN [s EXCEPT !.outstanding["nfs"] = Append(@, "READ"),
                             !.log = Append(@, [Ev("call", "READ", offset, OK)
                                                   EXCEPT !.count = count])]
              ELSE s,
       rc |-> rc] : rc \in CallRcs(s, "nfs") }

\* nfs_pm_step ( nfs ): the set of states it may leave
nfs_pm_step(s) ==
    IF ~ xfer_window(s, "pm") THEN {s}
    ELSE IF s.pm_state = NFS_PORTMAP_NONE THEN
        { IF r.rc = "EAGAIN" THEN r.st
          ELSE IF r.rc # OK THEN nfs_done(r.st, r.rc)
          ELSE [r.st EXCEPT !.pm_state = @ + 1]
          : r \in IssueCall(s, "pm", "GETPORT_MOUNT", 0) }
    ELSE IF s.pm_state = NFS_PORTMAP_NFSPORT THEN
        { IF r.rc = "EAGAIN" THEN r.st
          ELSE IF r.rc # OK THEN nfs_done(r.st, r.rc)
          ELSE r.st
          : r \in IssueCall(s, "pm", "GETPORT_NFS", 0) }
    ELSE {s}

\* nfs_mount_step ( nfs )
nfs_mount_step(s) ==
    IF ~ xfer_window(s, "mount") THEN {s}
    ELSE IF s.mount_state = NFS_MOUNT_NONE THEN
        { IF r.rc = "EAGAIN" THEN r.st
          ELSE IF r.rc # OK THEN nfs_done(r.st, r.rc)
          ELSE [r.st EXCEPT !.mount_state = @ + 1]
          : r \in IssueCall(s, "mount", "MNT", 0) }
    ELSE IF s.mount_state = NFS_MOUNT_UMNT THEN
        { IF r.rc # OK THEN nfs_done(r.st, r.rc) ELSE r.st
          : r \in IssueCall(s, "mount", "UMNT", 0) }
    ELSE {s}

\* nfs_step ( nfs )
nfs_step(s) ==
    IF ~ xfer_window(s, "nfs") THEN {s}
    ELSE IF s.nfs_state = NFS_LOOKUP THEN
        { IF r.rc = "EAGAIN" THEN r.st
          ELSE IF r.rc # OK THEN nfs_done(r.st, r.rc)
          ELSE [r.st EXCEPT !.nfs_state = @ + 1]
          : r \in IssueCall(s, "nfs", "LOOKUP", 0) }
    ELSE IF s.nfs_state = NFS_READ THEN
        { IF r.rc = "EAGAIN" THEN r.st
          ELSE IF r.rc # OK THEN nfs_done(r.st, r.rc)
          ELSE [r.st EXCEPT !.nfs_state = @ + 1]
          : r \in nfs_read(s, s.file_offset, NFS_RSIZE) }
    ELSE {s}

\* what a message delivered on a connection is taken for: the drivers'
\* delivery handlers go by their state alone
PmReplyKind(state) ==
    IF state = NFS_PORTMAP_MOUNTPORT THEN "GETPORT_MOUNT"
    ELSE IF state = NFS_PORTMAP_NFSPORT THEN "GETPORT_NFS" ELSE "UNEXPECTED"
MountReplyKind(state) ==
    IF state = NFS_MOUNT_MNT THEN "MNT"
    ELSE IF state = NFS_MOUNT_UMNT THEN "UMNT" ELSE "UNEXPECTED"
NfsReplyKind(state) ==
    IF state = NFS_LOOKUP_SENT THEN "LOOKUP"
    ELSE IF state = NFS_READ_SENT THEN "READ" ELSE "UNEXPECTED"

\* the status a reply is processed with: what nfs_done would be given
ReplyRc(kind, accept_state, rc) ==
    IF accept_state # 0 \/ kind = "UNEXPECTED" THEN "EPROTO" ELSE rc

\* nfs_pm_deliver ( nfs, io_buf, meta ); reply = [accept_state, rc, port],
\* rc being the result of portmap_get_getport_reply
nfs_pm_deliver(s, reply) ==
    LET kind == PmReplyKind(s.pm_state)
        s0 == Logged(s, Ev("reply", kind, reply.port,
                           ReplyRc(kind, reply.accept_state, reply.rc)))
    IN
    IF reply.accept_state # 0 THEN { nfs_done(s0, "EPROTO") }
    ELSE IF s.pm_state = NFS_PORTMAP_MOUNTPORT THEN
        IF reply.rc # OK THEN { nfs_done(s0, reply.rc) }
        ELSE UNION { IF c.rc # OK THEN { nfs_done(c.st, c.rc) }
                     ELSE nfs_pm_step([c.st EXCEPT !.pm_state = @ + 1])
                     : c \in nfs_connect(s0, "mount", reply.port) }
    ELSE IF s.pm_state = NFS_PORTMAP_NFSPORT THEN
        IF reply.rc # OK THEN { nfs_done(s0, reply.rc) }
        ELSE { IF c.rc # OK THEN nfs_done(c.st, c.rc)
               ELSE [intf_shutdown(c.st, "pm", OK) EXCEPT !.pm_state = @ + 1]
               : c \in nfs_connect(s0, "nfs", reply.port) }
    ELSE { nfs_done(s0, "EPROTO") }

\* MntReplyNfsState with the wrong enumerator: the MNT reply starts READ
MntReplyNfsState_Read == NFS_READ

\* nfs->nfs_state = NFS_LOOKUP: the NFS state the MNT reply sets
MntReplyNfsState == NFS_LOOKUP

\* nfs_mount_deliver ( nfs, io_buf, meta ); reply = [accept_state, rc], rc
\* being the result of mount_get_mnt_reply
nfs_mount_deliver(s, reply) ==
    LET kind == MountReplyKind(s.mount_state)
        s0 == Logged(s, Ev("reply", kind, 0,
                           ReplyRc(kind, reply.accept_state,
                                   IF kind = "MNT" THEN reply.rc ELSE OK)))
    IN
    IF reply.accept_state # 0 THEN { nfs_done(s0, "EPROTO") }
    ELSE IF s.mount_state = NFS_MOUNT_MNT THEN
        IF reply.rc # OK THEN { nfs_done(s0, reply.rc) }
        ELSE nfs_step([s0 EXCEPT !.current_fh = "root",
                                 !.nfs_state = MntReplyNfsState])
    ELSE IF s.mount_state = NFS_MOUNT_UMNT THEN { nfs_done(s0, OK) }
    ELSE { nfs_done(s0, "EPROTO") }

\* if ( nfs->file_offset == 0 ): the test that guards the two seeks
SeekWanted(offset) == offset = 0

\* AdvanceOffset with = for +=
AdvanceOffset_Assign(offset, count) == count

\* nfs->file_offset += read_reply.count
AdvanceOffset(offset, count) == offset + count

\* nfs_deliver_read that does not test read_reply.eof: it always goes back
\* to NFS_READ and steps
nfs_deliver_read_IgnoreEof(s, reply) ==
    LET s1 == IF SeekWanted(s.file_offset)
              THEN Logged(Logged(s, Ev("seek", "", reply.filesize, OK)),
                          Ev("seek", "", 0, OK))
              ELSE s
        s2 == [s1 EXCEPT !.file_offset = AdvanceOffset(@, reply.count)]
        d  == Logged(s2, Ev("deliver", "", reply.data_len, reply.sink_rc))
        s3 == IF reply.sink_close = "no" THEN d
              ELSE xfer_close(d, reply.sink_close)
    IN
    IF reply.sink_rc # OK THEN { nfs_done(s3, reply.sink_rc) }
    ELSE nfs_step([s3 EXCEPT !.nfs_state = @ - 1])

\* the READ branch of nfs_deliver, after nfs_get_read_reply succeeded
nfs_deliver_read(s, reply) ==
    LET s1 == IF SeekWanted(s.file_offset)
              THEN Logged(Logged(s, Ev("seek", "", reply.filesize, OK)),
                          Ev("seek", "", 0, OK))
              ELSE s
        s2 == [s1 EXCEPT !.file_offset = AdvanceOffset(@, reply.count)]
        d  == Logged(s2, Ev("deliver", "", reply.data_len, reply.sink_rc))
        \* the sink may close the data interface from within its deliver
        \* handler, before xfer_deliver_raw returns
        s3 == IF reply.sink_close = "no" THEN d
              ELSE xfer_close(d, reply.sink_close)
    IN
    IF reply.sink_rc # OK THEN { nfs_done(s3, reply.sink_rc) }
    ELSE IF ~ reply.eof
    THEN nfs_step([s3 EXCEPT !.nfs_state = @ - 1])
    ELSE nfs_mount_step([intf_shutdown(s3, "nfs", OK)
                            EXCEPT !.nfs_state = @ + 1,
                                   !.mount_state = @ + 1])

\* nfs_deliver ( nfs, io_buf, meta ); reply = [accept_state, rc, attrs,
\* filesize, count, eof, data_len, sink_rc, sink_close], rc being the result
\* of nfs_get_lookup_reply or nfs_get_read_reply, attrs whether the READ
\* reply carries post-op attributes, sink_rc the result of
\* xfer_deliver_raw downstream, and sink_close the status the sink closes the
\* data interface with during that delivery ("no": it does not)
nfs_deliver(s, reply) ==
    LET kind == NfsReplyKind(s.nfs_state)
        s0 == Logged(s, [ev |-> "reply", what |-> kind, n |-> reply.count,
                         rc |-> ReplyRc(kind, reply.accept_state, reply.rc),
                         eof |-> reply.eof, count |-> 0,
                         attrs |-> reply.attrs])
    IN
    IF reply.accept_state # 0 THEN { nfs_done(s0, "EPROTO") }
    ELSE IF s.nfs_state = NFS_LOOKUP_SENT THEN
        IF reply.rc # OK THEN { nfs_done(s0, reply.rc) }
        ELSE nfs_step([s0 EXCEPT !.current_fh = "file", !.nfs_state = @ + 1])
    ELSE IF s.nfs_state = NFS_READ_SENT THEN
        IF reply.rc # OK THEN { nfs_done(s0, reply.rc) }
        ELSE nfs_deliver_read(s0, reply)
    ELSE { nfs_done(s0, "EPROTO") }

----
\* What the servers and the sink may answer.

\* ports a GETPORT reply may carry; 0 is "not registered"
Ports == {0, 635}
\* counts a READ reply may carry: nothing, or all that was asked for
Counts == {0, NFS_RSIZE}
\* file sizes the attributes of a READ reply may carry
FileSizes == {1300, 2600}
\* what nfs_get_read_reply may leave in filesize when the READ reply
\* carries no post-op attributes: the size is taken from where the
\* attributes would be, so it is any value, small or large
UndefinedSizes == {0, 2600}
\* NFS status of a LOOKUP or READ reply: NFS3_OK, NFS3ERR_NOENT
NfsStatuses == {0, 2}

\* the result of decoding a reply that carries this NFS status: a nonzero
\* status surfaces as an error that preserves it
RemoteErr(status) == IF status = 0 THEN OK
                     ELSE IF status = 2 THEN "NFS3ERR_NOENT" ELSE "NFS3ERR"

\* replies on the portmap connection; a server that does not fail accepts
\* the call and names a port
PmReplies ==
    IF ~ faults
    THEN { [accept_state |-> 0, rc |-> OK, port |-> p] : p \in Ports \ {0} }
    ELSE { [accept_state |-> 1, rc |-> OK, port |-> 0] } \cup
         { [accept_state |-> 0, rc |-> "EINVAL", port |-> 0] } \cup
         { [accept_state |-> 0, rc |-> OK, port |-> p] : p \in Ports }

MountReplies ==
    IF ~ faults
    THEN { [accept_state |-> 0, rc |-> OK] }
    ELSE { [accept_state |-> 1, rc |-> OK] } \cup
         { [accept_state |-> 0, rc |-> r] : r \in {OK, "MNT3ERR_ACCES"} }

\* the number of messages the driver has taken for READ replies
ReadRepliesSeen(l) ==
    Cardinality({ i \in 1..Len(l) : l[i].ev = "reply" /\ l[i].what = "READ" })

\* replies on the NFS connection: not accepted, a nonzero NFS status, a
\* LOOKUP result, or a READ result; the fields a handler does not read in
\* the state it is in are fixed. A server that does not fail answers with a
\* result, and the last READ reply of the fetch reports eof; a sink that
\* does not fail takes the data and stays open.
NfsReplies(s) ==
    LET none == [accept_state |-> 0, rc |-> OK, attrs |-> TRUE,
                 filesize |-> 0, count |-> 0,
                 eof |-> FALSE, data_len |-> 0, sink_rc |-> OK,
                 sink_close |-> "no"]
        last == ReadRepliesSeen(s.log) + 1 >= MaxReads
        bad  == IF ~ faults THEN {}
                ELSE { [none EXCEPT !.accept_state = 1] } \cup
                     { [none EXCEPT !.rc = RemoteErr(st)]
                       : st \in NfsStatuses \ {0} }
    IN
    bad \cup
    IF s.nfs_state # NFS_READ_SENT THEN { none }
    ELSE UNION { { [none EXCEPT !.attrs = af[1], !.filesize = af[2],
                                !.count = c, !.eof = e,
                                !.data_len = d, !.sink_rc = k,
                                !.sink_close = x]
                   : af \in (IF ~ SeekWanted(s.file_offset)
                             THEN { << TRUE, 0 >> }
                             ELSE { << TRUE, fs >> : fs \in FileSizes } \cup
                                  IF ~ faults THEN {}
                                  ELSE { << FALSE, fs >>
                                         : fs \in UndefinedSizes }),
                     e \in (IF ~ faults /\ last THEN {TRUE} ELSE BOOLEAN),
                     d \in {c, NFS_RSIZE},
                     k \in (IF faults THEN {OK, "ENOSPC"} ELSE {OK}),
                     x \in (IF faults THEN {"no"} \cup CloseRcs ELSE {"no"}) }
                 : c \in Counts }

\* the server's answer to the oldest unanswered call leaves the connection
Answered(s, c) == [s EXCEPT !.outstanding[c] = Tail(@)]

----
\* Events of the driver specification.

\* the transport of the pm connection reports window b and notifies
PmWindow(b) ==
    /\ intf["pm"] = "plugged"
    /\ Len(outstanding["pm"]) <= MaxOutstanding
    /\ \E t \in nfs_pm_step([Cur EXCEPT !.win["pm"] = b]) : Become(t)
    /\ UNCHANGED << rpcvars, encvars, faults >>

PmWindowChanged == \E b \in BOOLEAN : PmWindow(b)

\* the transport of the mount connection reports window b and notifies
MountWindow(b) ==
    /\ intf["mount"] = "plugged"
    /\ Len(outstanding["mount"]) <= MaxOutstanding
    /\ \E t \in nfs_mount_step([Cur EXCEPT !.win["mount"] = b]) : Become(t)
    /\ UNCHANGED << rpcvars, encvars, faults >>

MountWindowChanged == \E b \in BOOLEAN : MountWindow(b)

\* the transport of the nfs connection reports window b and notifies
NfsWindow(b) ==
    /\ intf["nfs"] = "plugged"
    /\ Len(outstanding["nfs"]) <= MaxOutstanding
    /\ \E t \in nfs_step([Cur EXCEPT !.win["nfs"] = b]) : Become(t)
    /\ UNCHANGED << rpcvars, encvars, faults >>

NfsWindowChanged == \E b \in BOOLEAN : NfsWindow(b)

PmDeliver ==
    \E reply \in PmReplies :
        /\ intf["pm"] = "plugged"
        /\ outstanding["pm"] # << >>
        /\ \E t \in nfs_pm_deliver(Answered(Cur, "pm"), reply) : Become(t)
        /\ UNCHANGED << rpcvars, encvars, faults >>

MountDeliver ==
    \E reply \in MountReplies :
        /\ intf["mount"] = "plugged"
        /\ outstanding["mount"] # << >>
        /\ \E t \in nfs_mount_deliver(Answered(Cur, "mount"), reply) : Become(t)
        /\ UNCHANGED << rpcvars, encvars, faults >>

NfsDeliver ==
    \E reply \in NfsReplies(Cur) :
        /\ intf["nfs"] = "plugged"
        /\ outstanding["nfs"] # << >>
        /\ ReadRepliesSeen(log) < MaxReads
        /\ \E t \in nfs_deliver(Answered(Cur, "nfs"), reply) : Become(t)
        /\ UNCHANGED << rpcvars, encvars, faults >>

\* the number of messages delivered so far that answer no call
StraySeen(l) == Cardinality({ i \in 1..Len(l) : l[i].ev = "stray" })

\* a message that answers no call arrives on a connection (a duplicate, a
\* second segment of a reply, anything the server sends): the transport
\* hands it to the connection's delivery handler like any other
PmStray ==
    \E reply \in PmReplies :
        /\ intf["pm"] = "plugged"
        /\ StraySeen(log) < MaxStray
        /\ \E t \in nfs_pm_deliver(Logged(Cur, Ev("stray", "pm", 0, OK)),
                                    reply) : Become(t)
        /\ UNCHANGED << rpcvars, encvars, faults >>

MountStray ==
    \E reply \in MountReplies :
        /\ intf["mount"] = "plugged"
        /\ StraySeen(log) < MaxStray
        /\ \E t \in nfs_mount_deliver(Logged(Cur, Ev("stray", "mount", 0, OK)),
                                       reply) : Become(t)
        /\ UNCHANGED << rpcvars, encvars, faults >>

NfsStray ==
    \E reply \in NfsReplies(Cur) :
        /\ intf["nfs"] = "plugged"
        /\ StraySeen(log) < MaxStray
        /\ ReadRepliesSeen(log) < MaxReads
        /\ \E t \in nfs_deliver(Logged(Cur, Ev("stray", "nfs", 0, OK)),
                                 reply) : Become(t)
        /\ UNCHANGED << rpcvars, encvars, faults >>

\* a transport closes its connection: intf_close reaches nfs_done
TransportClose ==
    \E c \in Conns, rc \in CloseRcs :
        /\ faults
        /\ intf[c] = "plugged"
        /\ Become(nfs_done(PeerGone(Logged(Cur, Ev("tclose", c, 0, rc)), c),
                           rc))
        /\ UNCHANGED << rpcvars, encvars, faults >>

\* the downstream sink closes the data interface
XferClose ==
    \E rc \in CloseRcs :
        /\ faults
        /\ intf["xfer"] = "plugged"
        /\ Become(xfer_close(Cur, rc))
        /\ UNCHANGED << rpcvars, encvars, faults >>

\* the state nfs_open leaves when it returns 0: the data interface plugged
\* into the sink, the portmap connection being opened
DrvInitVars ==
    /\ pm_state = NFS_PORTMAP_NONE
    /\ mount_state = NFS_MOUNT_NONE
    /\ nfs_state = NFS_NONE
    /\ current_fh = "none"
    /\ file_offset = 0
    /\ intf = [i \in Intfs |-> IF i \in {"xfer", "pm"} THEN "plugged"
                               ELSE "unplugged"]
    /\ win = [c \in Conns |-> FALSE]
    /\ outstanding = [c \in Conns |-> << >>]
    /\ log = << >>

\* no call frame is being built
EncInitVars ==
    /\ call_in = [proc_name |-> 0]
    /\ call_buf = << >>

----
\* the driver's sessions are zero-filled by zalloc
Init == rpc_id = 0 /\ RpcInitVars /\ DrvInitVars /\ EncInitVars /\ faults = TRUE

\* the driver and its three connections
Next ==
    \/ PmWindowChanged
    \/ MountWindowChanged
    \/ NfsWindowChanged
    \/ PmDeliver
    \/ MountDeliver
    \/ NfsDeliver
    \/ TransportClose
    \/ XferClose

Spec == Init /\ [][Next]_vars

\* one RPC session, its owner and its transport
NextRpc ==
    \/ RpcCall
    \/ RpcServerReply
    \/ RpcStrayDeliver
    \/ RpcWindowChanged
    \/ RpcClose

\* the session starts with any first transaction id
InitRpc ==
    /\ rpc_id \in InitialXids
    /\ RpcInitVars /\ DrvInitVars /\ EncInitVars /\ faults = TRUE

SpecRpc == InitRpc /\ [][NextRpc]_vars

\* the fetch when nothing around the driver fails: every call can be
\* sent, every connection opens, the servers answer every call with a
\* result, a READ reply reports eof, the sink takes the data and stays open
InitLive ==
    /\ rpc_id = 0
    /\ RpcInitVars /\ DrvInitVars /\ EncInitVars /\ faults = FALSE

NextLive ==
    \/ PmWindowChanged
    \/ MountWindowChanged
    \/ NfsWindowChanged
    \/ PmDeliver
    \/ MountDeliver
    \/ NfsDeliver

\* every connection reports an open window again and again, and a reply
\* that is due is delivered
SpecLive ==
    /\ InitLive
    /\ [][NextLive]_vars
    /\ SF_vars(PmWindow(TRUE))
    /\ SF_vars(MountWindow(TRUE))
    /\ SF_vars(NfsWindow(TRUE))
    /\ WF_vars(PmDeliver)
    /\ WF_vars(MountDeliver)
    /\ WF_vars(NfsDeliver)

\* the driver and its three connections when nothing fails, with servers
\* that may also send messages that answer no call
InitStray ==
    /\ rpc_id = 0
    /\ RpcInitVars /\ DrvInitVars /\ EncInitVars /\ faults = FALSE

NextStray ==
    \/ NextLive
    \/ PmStray
    \/ MountStray
    \/ NfsStray

SpecStray == InitStray /\ [][NextStray]_vars

\* the frame of one call, for any credential and payload
InitEnc ==
    /\ rpc_id = 0
    /\ RpcInitVars /\ DrvInitVars /\ faults = TRUE
    /\ call_in \in CallInputs
    /\ call_buf = << >>

NextEnc == BuildFrame

SpecEnc == InitEnc /\ [][NextEnc]_vars

(***************************************************************************)
(*                      Properties of the call frame                        *)
(***************************************************************************)

\* C19: the frame is one last-fragment record: its first four bytes are
\* the big-endian word 0x80000000 | n, n being the number of bytes that
\* follow them in the frame.
C19_RecordMark ==
    call_buf # << >> =>
        LET n == Len(call_buf) - 4
        IN  /\ n >= 40
            /\ SubSeq(call_buf, 1, 4) =
                   << 128 + (n \div 16777216), (n \div 65536) % 256,
                      (n \div 256) % 256, n % 256 >>

\* a frame with an AUTH_SYS credential whose machine name needs padding,
\* with auxiliary gids and with arguments
C19_Witness ==
    /\ call_buf # << >>
    /\ call_in.credential.flavor = ONCRPC_AUTH_SYS
    /\ Len(call_in.credential.hostname) % 4 = 1
    /\ call_in.credential.aux_gid_len = 2
    /\ Len(call_in.io_buf) > 256

(***************************************************************************)
(*                    Properties of the RPC session                         *)
(***************************************************************************)

\* the call whose frame carries xid x
CallOfXid(x) == CHOOSE k \in 1..Len(rpc_calls) : rpc_calls[k].xid = x

\* how often the callback of call k has run
TimesInvoked(k) ==
    Cardinality({ i \in 1..Len(invoked) : invoked[i].callback = k })

\* C1: whatever the order in which the server answers the transmitted
\* frames, a callback run for one of its replies is the callback of the call
\* whose frame carries the reply's xid, and the callback of every call the
\* server has answered has run exactly once.
C1_Correlation ==
    /\ \A i \in 1..Len(invoked) :
           invoked[i].xid \in answered =>
               rpc_calls[invoked[i].callback].xid = invoked[i].xid
    /\ \A x \in answered : TimesInvoked(CallOfXid(x)) = 1

\* C2: while the session is open, every accepted call (sent at once or
\* queued) that has not been answered has exactly one pending-reply entry,
\* and the key of that entry is the xid in the call's frame.
C2_PendingReplyPerFrame ==
    rpc_shut = "open" =>
        \A k \in 1..Len(rpc_calls) :
            (rpc_calls[k].rc = OK /\ rpc_calls[k].xid \notin answered) =>
                /\ Cardinality({ i \in 1..Len(pending_reply) :
                                   pending_reply[i].callback = k }) = 1
                /\ \A i \in 1..Len(pending_reply) :
                       pending_reply[i].callback = k =>
                           pending_reply[i].rpc_id = rpc_calls[k].xid

\* C3: the frames reach the transport in the order of their call()s.
C3_TransmitInCallOrder ==
    \A i, j \in 1..Len(wire) : i < j => wire[i].call < wire[j].call

\* the transaction ids a record may carry
Xids == 0..(rpc_id + 1)
NoEntry(x) == \A i \in 1..Len(pending_reply) : pending_reply[i].rpc_id # x

\* C15: in every state of the session, a reply whose xid matches no
\* pending-reply entry is discarded: oncrpc_deliver returns success, runs no
\* callback, and leaves the pending-reply list and the pending-call queue
\* as they are.
C15_StrayReplyDiscarded ==
    \A x \in Xids : \A record \in ReplyRecords(x) :
        NoEntry(x) =>
            LET r == oncrpc_deliver(record)
            IN  /\ r.rc = OK
                /\ r.callback = 0
                /\ r.pending_reply = pending_reply
                /\ r.pending_call = pending_call

\* a reply was delivered that matched no entry while both lists held
\* entries: no callback ran for it
C15_Witness ==
    /\ rpc_shut = "open"
    /\ pending_reply # << >>
    /\ pending_call # << >>
    /\ \E x \in answered : \A i \in 1..Len(invoked) : invoked[i].xid # x

\* the call was queued by oncrpc_call_iob for want of a window
Queued(k) == rpc_calls[k].path = "queued"

\* C16: the queue is drained first-in-first-out and the drain stops at the
\* first frame the transport refuses: the queued frames reach the transport
\* in the order of their calls, no frame is transmitted while one queued
\* before it is still waiting, and the frames that wait keep their order
\* (the list holds the newest first).
C16_DrainFifoStopsAtFailure ==
    /\ \A i, j \in 1..Len(wire) :
           (i < j /\ Queued(wire[i].call) /\ Queued(wire[j].call)) =>
               wire[i].call < wire[j].call
    /\ \A i \in 1..Len(wire), j \in 1..Len(pending_call) :
           Queued(wire[i].call) => wire[i].call < pending_call[j].call
    /\ \A i, j \in 1..Len(pending_call) :
           i < j => pending_call[i].call > pending_call[j].call

\* C17: in every state of the session close(rc) leaves both lists empty and
\* the transport shut down, with exactly rc when the session was open (a
\* transport that is shut down already keeps the status it was shut down
\* with); and once the session is closed no callback runs any more.
C17_CloseDropsAll ==
    /\ [](\A rc \in CloseRcs :
             LET r == oncrpc_close_session(rc)
             IN  /\ r.pending_call = << >>
                 /\ r.pending_reply = << >>
                 /\ r.rpc_shut = "shut"
                 /\ rpc_shut = "open" => r.rpc_shut_rc = rc)
    /\ [][rpc_shut = "shut" => invoked' = invoked]_vars

\* a session closed with an error while a queued call was waiting for the
\* window and for its reply
C17_Witness ==
    /\ rpc_shut = "shut"
    /\ rpc_shut_rc = "ECONNRESET"
    /\ pending_call = << >>
    /\ pending_reply = << >>
    /\ \E k \in 1..Len(rpc_calls) :
           /\ Queued(k)
           /\ \A i \in 1..Len(wire) : wire[i].call # k

\* C18: when oncrpc_deliver runs a callback for an accepted reply, the
\* accept_state it hands over is the word behind the verifier and the
\* cursor is at the first word of the results, whatever the verifier.
C18_AcceptStateAfterVerifier ==
    \A x \in Xids : \A record \in ReplyRecords(x) :
        LET r == oncrpc_deliver(record)
        IN  r.callback # 0 =>
                /\ r.accept_state = record.words[AcceptAt(record)]
                /\ r.cursor = ResultsAt(record)

\* C27: a call that returns a failure status leaves the pending-call queue
\* and the pending-reply list as they were, and a call that returns success
\* records one pending-reply entry.
C27_EntryIffAccepted ==
    [][Len(rpc_calls') = Len(rpc_calls) + 1 =>
          LET call == rpc_calls'[Len(rpc_calls')]
          IN  /\ call.rc # OK =>
                     /\ pending_call' = pending_call
                     /\ pending_reply' = pending_reply
              /\ call.rc = OK =>
                     Len(pending_reply') = Len(pending_reply) + 1]_vars

(***************************************************************************)
(*                       Properties of the driver                           *)
(***************************************************************************)

LogIdx == 1..Len(log)
\* where the driver issued call w
CallIdx(w) == { i \in LogIdx : log[i].ev = "call" /\ log[i].what = w }
\* where the driver took a delivered message for an accepted, well-formed
\* reply to call w
ReplyIdx(w) == { i \in LogIdx : /\ log[i].ev = "reply"
                                /\ log[i].what = w
                                /\ log[i].rc = OK }
\* where a READ reply with eof set was processed
EofIdx == { i \in ReplyIdx("READ") : log[i].eof }
EvIdx(ev) == { i \in LogIdx : log[i].ev = ev }
\* every index of B has an index of A before it
Precedes(A, B) == \A j \in B : \E i \in A : i < j
AllShut == \A i \in Intfs : intf[i] = "shut"

\* the place of a call in the order the specification gives
Rank(w) == CASE w = "GETPORT_MOUNT" -> 1
             [] w = "MNT" -> 2
             [] w = "GETPORT_NFS" -> 3
             [] w = "LOOKUP" -> 4
             [] w = "READ" -> 5
             [] w = "UMNT" -> 6

C5_SuccessOnlyAfterUmntReply ==
    \A j \in EvIdx("close") :
        log[j].rc = OK => \E i \in ReplyIdx("UMNT") : i < j

\* C6: the sink is sought exactly once, with the pair seek(size), seek(0),
\* within the first READ reply and before its data; no later READ reply
\* seeks.
C6_SeekPairOnce ==
    /\ Cardinality(EvIdx("seek")) <= 2
    /\ \A i \in EvIdx("seek") :
           Cardinality({ r \in ReplyIdx("READ") : r < i }) = 1
    /\ \A d \in EvIdx("deliver") :
           Cardinality({ i \in EvIdx("seek") : i < d }) = 2

\* the file size the first READ reply reported to the sink
FirstSize == log[CHOOSE i \in EvIdx("seek") :
                     \A j \in EvIdx("seek") : i <= j].n
Succeeded == \E i \in EvIdx("done") : log[i].rc = OK

\* C7 as stated: file_offset never exceeds the file size of the first READ
\* reply, and equals it when the fetch succeeded.
C7_BoundedBySize ==
    EvIdx("seek") # {} =>
        /\ file_offset <= FirstSize
        /\ Succeeded => file_offset = FirstSize

RECURSIVE SumCounts(_)
\* the sum of the counts of the READ replies among the first n log entries
SumCounts(n) ==
    IF n = 0 THEN 0
    ELSE SumCounts(n - 1) + (IF n \in ReplyIdx("READ") THEN log[n].n ELSE 0)

\* C7 amended: file_offset never decreases and is always the sum of the
\* counts the READ replies reported; the reported file size does not bound
\* it.
C7_OffsetIsSumOfCounts ==
    /\ [][file_offset' >= file_offset]_vars
    /\ [](file_offset = SumCounts(Len(log)))

\* a successful fetch that ends beyond the size its first READ reply reported
C7_Witness ==
    /\ Succeeded
    /\ EvIdx("seek") # {}
    /\ file_offset > FirstSize

\* C8: no connection ever has two calls awaiting their replies.
C8_OneOutstanding == \A c \in Conns : Len(outstanding[c]) <= 1

\* where the sink closed the data interface before a READ reply with eof
CancelIdx == { i \in EvIdx("cancel") : \A j \in EofIdx : j > i }

\* C9: when the sink closes the data interface before EOF, with any status,
\* nfs_done reports an error (ECONNRESET when the close carried success, the
\* close status otherwise), every interface is shut down, no UMNT is issued,
\* and no call, seek, deliver or close downstream follows.
C9_CancelIsClean ==
    \A i \in CancelIdx :
        /\ i + 1 \in EvIdx("done")
        /\ log[i + 1].rc # OK
        /\ log[i + 1].rc = (IF log[i].rc = OK THEN "ECONNRESET" ELSE log[i].rc)
        /\ AllShut
        /\ CallIdx("UMNT") = {}
        /\ \A j \in LogIdx : j > i => log[j].ev \in {"done", "shutdown"}

\* the sink closes with success while a READ is awaiting its reply
C9_Witness ==
    \E i \in CancelIdx :
        /\ log[i].rc = OK
        /\ outstanding["nfs"] = << "READ" >>
        /\ \E j \in LogIdx : j > i /\ log[j].ev = "shutdown"

\* where a LOOKUP reply with a nonzero NFS status was processed
LookupFailIdx == { i \in LogIdx : /\ log[i].ev = "reply"
                                  /\ log[i].what = "LOOKUP"
                                  /\ log[i].rc = RemoteErr(2) }

\* C10 as stated: after a LOOKUP reply with a nonzero status the sink is
\* closed with that status, a UMNT call is issued, and everything is closed.
C10_UmntAfterLookupFailure ==
    LookupFailIdx # {} =>
        /\ \E j \in EvIdx("close") : log[j].rc = RemoteErr(2)
        /\ CallIdx("UMNT") # {}
        /\ AllShut

\* C10 amended: after a LOOKUP reply with a nonzero status the sink is
\* closed with that status and every interface is shut down; no UMNT call
\* is issued.
C10_LookupFailureIsTerminal ==
    \A i \in LookupFailIdx :
        /\ \E j \in EvIdx("close") : j > i /\ log[j].rc = RemoteErr(2)
        /\ \A j \in EvIdx("close") : log[j].rc = RemoteErr(2)
        /\ CallIdx("UMNT") = {}
        /\ AllShut
        /\ \A j \in EvIdx("call") : j < i

C10_Witness == LookupFailIdx # {} /\ CallIdx("LOOKUP") # {}

\* where a well-formed GETPORT(MOUNT) reply that carries port 0 was processed
PortZeroIdx == { i \in ReplyIdx("GETPORT_MOUNT") : log[i].n = 0 }

\* C11: when the GETPORT(MOUNT) reply reports port 0, the sink is closed
\* with an error, every interface is shut down, and no connection is ever
\* opened to the MOUNT or the NFS service (no connect, no call on either).
C11_PortZeroFails ==
    \A i \in PortZeroIdx :
        /\ \E j \in EvIdx("close") : j > i /\ log[j].rc # OK
        /\ \A j \in EvIdx("close") : log[j].rc # OK
        /\ EvIdx("connect") = {}
        /\ \A j \in EvIdx("call") : log[j].what = "GETPORT_MOUNT"
        /\ AllShut

\* the GETPORT(MOUNT) call was answered with port 0
C11_Witness ==
    /\ PortZeroIdx # {}
    /\ CallIdx("GETPORT_MOUNT") # {}
    /\ \E j \in EvIdx("close") : log[j].rc = "EINVAL"

\* where a step of the fetch failed: a reply that is not accepted, not
\* expected or not decodable, a delivery the sink refused, a transport that
\* closed, or a completion with an error (which is how a failed connect and
\* a failed call show)
FailIdx == { i \in LogIdx :
               \/ log[i].ev \in {"reply", "deliver", "done"} /\ log[i].rc # OK
               \/ log[i].ev = "tclose" }
FirstFail == CHOOSE i \in FailIdx : \A j \in FailIdx : i <= j

\* C12: once a step has failed, every interface is shut down and the status
\* the sink is closed with is never success and is the code of the first
\* failure (of a transport that closed with status 0 there is no code to
\* keep).
C12_FirstFailureReported ==
    FailIdx # {} =>
        /\ AllShut
        /\ \A j \in EvIdx("close") :
               /\ log[j].rc # OK
               /\ log[FirstFail].rc # OK => log[j].rc = log[FirstFail].rc

FirstDone == CHOOSE i \in EvIdx("done") : \A j \in EvIdx("done") : i <= j

\* C14: once nfs_done has run, a further nfs_done, with any status, changes
\* nothing downstream: the sink is closed at most once, by the first
\* nfs_done and with its status, and after the first nfs_done there is no
\* call, connect, seek or deliver, only shutdowns and further nfs_done.
C14_CloseIsIdempotent ==
    EvIdx("done") # {} =>
        /\ \A j \in LogIdx :
               j > FirstDone => log[j].ev \in {"close", "shutdown", "done"}
        /\ \A j \in EvIdx("close") :
               j = FirstDone + 1 /\ log[j].rc = log[FirstDone].rc
        /\ AllShut

\* nfs_done was entered a second time, with another status: the sink closed
\* the data interface from within a delivery, and the handler went on
C14_Witness ==
    \E i, j \in EvIdx("done") : i < j /\ log[i].rc # log[j].rc

\* C21: every READ call asks for NFS_RSIZE bytes at the sum of the counts
\* of the READ replies processed before it (0 for the first); the offset
\* follows the reported counts, not the lengths of the data delivered.
C21_ReadAtSumOfCounts ==
    /\ \A i \in CallIdx("READ") :
           /\ log[i].count = NFS_RSIZE
           /\ log[i].n = SumCounts(i)
    /\ \A i \in CallIdx("READ") :
           (\A r \in ReplyIdx("READ") : r > i) => log[i].n = 0

\* a READ call at a nonzero offset, issued after a READ reply whose count
\* differs from the length of the data it delivered
C21_Witness ==
    \E r \in ReplyIdx("READ"), d \in EvIdx("deliver"), i \in CallIdx("READ") :
        /\ r < d /\ d < i
        /\ log[d].n # log[r].n
        /\ log[i].n = NFS_RSIZE

\* where a READ reply with eof set was processed to its end: the sink took
\* its data
EofDelivered ==
    { e \in EofIdx : \E d \in EvIdx("deliver") : d > e /\ log[d].rc = OK
                        /\ \A k \in EvIdx("reply") : ~ (e < k /\ k < d) }

\* C22: once a READ reply with eof has been processed, no READ call is
\* issued any more, whatever is notified or delivered afterwards; the NFS
\* connection is shut down, the NFS side is closed and the mount side is at
\* its UMNT step, which issues UMNT as soon as the mount window is open.
C22_NoReadAfterEof ==
    /\ \A e \in EofIdx :
           /\ \A i \in CallIdx("READ") : i < e
           /\ intf["nfs"] = "shut"
    /\ \A e \in EofDelivered :
           /\ nfs_state = NFS_CLOSED
           /\ mount_state = NFS_MOUNT_UMNT
           /\ (EvIdx("done") = {} /\ win["mount"]) => CallIdx("UMNT") # {}

\* after the READ reply with eof, the mount window opened (UMNT was issued
\* from the notification) and a message was delivered on the mount
\* connection
C22_Witness ==
    \E e \in EofDelivered, u \in CallIdx("UMNT"), v \in ReplyIdx("UMNT") :
        /\ CallIdx("READ") # {}
        /\ e < u /\ u < v
        /\ mount_state = NFS_MOUNT_UMNT

\* where connection c was opened, and where the portmap connection was
\* shut down
ConnectIdx(c) == { i \in EvIdx("connect") : log[i].what = c }
PmShutIdx == { i \in EvIdx("shutdown") : log[i].what = "pm" }
\* connection c is opened within the handling of a well-formed reply to
\* call w, to the port that reply carries
OpenedByReply(c, w) ==
    \A i \in ConnectIdx(c) :
        /\ i - 1 \in ReplyIdx(w)
        /\ log[i].n = log[i - 1].n
        /\ log[i].n # 0

\* C23 as stated: the MOUNT connection is opened only after the
\* GETPORT(MOUNT) reply and the NFS connection only after the GETPORT(NFS)
\* reply, each to the port of that reply; the portmap connection is shut
\* down only once the NFS connect has been initiated, and no portmap call
\* is issued afterwards.
C23_PmShutOnlyAfterNfsConnect ==
    /\ OpenedByReply("mount", "GETPORT_MOUNT")
    /\ OpenedByReply("nfs", "GETPORT_NFS")
    /\ \A j \in PmShutIdx :
           /\ \E i \in ConnectIdx("nfs") : i < j
           /\ \A k \in CallIdx("GETPORT_MOUNT") \cup CallIdx("GETPORT_NFS") :
                  k < j

\* C23 amended: as stated, except that a fetch that ends (nfs_done) before
\* the NFS connect shuts the portmap connection down with the others; while
\* the fetch goes on the portmap connection is shut down only right after
\* the NFS connect.
C23_ConnectAfterPortReply ==
    /\ OpenedByReply("mount", "GETPORT_MOUNT")
    /\ OpenedByReply("nfs", "GETPORT_NFS")
    /\ \A j \in PmShutIdx :
           /\ \/ j - 1 \in ConnectIdx("nfs")
              \/ \E i \in EvIdx("done") : i < j
           /\ \A k \in CallIdx("GETPORT_MOUNT") \cup CallIdx("GETPORT_NFS") :
                  k < j
    /\ (EvIdx("done") = {} /\ ConnectIdx("nfs") = {}) => intf["pm"] = "plugged"
    /\ (EvIdx("done") = {} /\ ConnectIdx("nfs") # {}) => intf["pm"] = "shut"

\* both connections were opened, the portmap connection was shut down after
\* the NFS connect, and the fetch went on
C23_Witness ==
    /\ ConnectIdx("mount") # {}
    /\ \E i \in ConnectIdx("nfs") : i + 1 \in PmShutIdx
    /\ CallIdx("LOOKUP") # {}
    /\ EvIdx("done") = {}

\* where the first READ reply of the fetch was processed, when it carried
\* no post-op attributes
NoAttrsIdx ==
    { r \in ReplyIdx("READ") : /\ ~ log[r].attrs
                               /\ \A q \in ReplyIdx("READ") : r <= q }

\* C24: when the first READ reply carries no post-op attributes, no seek is
\* sent downstream: the data is delivered right away, without a declared
\* length.
C24_NoSizeWithoutAttributes ==
    \A r \in NoAttrsIdx :
        /\ r + 1 \in EvIdx("deliver")
        /\ \A i \in EvIdx("seek") : i > r + 1

\* C25: the NFS state never returns to NFS_LOOKUP once the LOOKUP call has
\* been issued, whatever is delivered on the three connections: at most one
\* LOOKUP call is issued per fetch, and the file handle is replaced at most
\* once by an MNT reply and at most once by a LOOKUP reply.
C25_NfsStateForward ==
    /\ Cardinality(CallIdx("LOOKUP")) <= 1
    /\ CallIdx("LOOKUP") # {} => nfs_state # NFS_LOOKUP
    /\ Cardinality(ReplyIdx("MNT")) <= 1
    /\ Cardinality(ReplyIdx("LOOKUP")) <= 1

\* the driver's state with every window open: what a window-open
\* notification finds
WindowsOpen == [Cur EXCEPT !.win = [c \in Conns |-> TRUE]]

\* C26: a call that would block (EAGAIN) is never fatal: the fetch never
\* completes with EAGAIN and the sink is never closed with it; and wherever
\* a step is about to issue GETPORT(MOUNT), GETPORT(NFS), MNT, LOOKUP, READ
\* or UMNT, the step may return with the state as it found it (the call
\* would block), so that the next window-open notification issues the same
\* call.
C26_WouldBlockIsNotFatal ==
    /\ \A j \in EvIdx("done") \cup EvIdx("close") : log[j].rc # "EAGAIN"
    /\ (intf["pm"] = "plugged"
          /\ pm_state \in {NFS_PORTMAP_NONE, NFS_PORTMAP_NFSPORT})
           => WindowsOpen \in nfs_pm_step(WindowsOpen)
    /\ (intf["mount"] = "plugged"
          /\ mount_state \in {NFS_MOUNT_NONE, NFS_MOUNT_UMNT})
           => WindowsOpen \in nfs_mount_step(WindowsOpen)
    /\ (intf["nfs"] = "plugged" /\ nfs_state \in {NFS_LOOKUP, NFS_READ})
           => WindowsOpen \in nfs_step(WindowsOpen)

\* C20: the fetch ends well: UMNT is issued, its reply is received and the
\* sink is closed with success.
C20_FetchSucceeds ==
    <>(/\ CallIdx("UMNT") # {}
       /\ ReplyIdx("UMNT") # {}
       /\ \E j \in EvIdx("close") : log[j].rc = OK)

====
